---- MODULE Spec2Model ----
(***************************************************************************)
(* A model of the matrufsc3 scraper: the per-session pagination protocol   *)
(* (scraper/src/lib.rs, Cagr), the fan-out over (term, campus) pairs       *)
(* (scrape_last_n_terms), the table / row / time-slot parsers              *)
(* (scraper/src/parse.rs) and the caller's loop over the result list       *)
(* (api/src/main.rs).                                                      *)
(*                                                                         *)
(* A step of a session is what runs between two suspension points of its   *)
(* future: a response arrives, the handler runs and, unless the session    *)
(* ends, the next request is sent.  `send().await` and `text().await` of   *)
(* one request are taken in one step (no state is shared that another      *)
(* session could observe in between); either can fail.                     *)
(***************************************************************************)
EXTENDS Integers, Sequences, FiniteSets, TLC

\* ------------------------------------------------------------------ bounds

\* n (the argument of scrape_last_n_terms) ranges over 0..MaxN
MaxN == 2
\* the fan-out scenarios have at most MaxSessions (term, campus) pairs
MaxSessions == 2
\* largest page count the site reports in the fan-out scenarios
OrchPages == 1
\* largest page count the site reports in the single-session scenarios
MaxPages == 3
\* result counts fed to page_count in the pure-function scenarios: 0..MaxCount
MaxCount == 120
\* weekday codes written into schedule lines: -MaxCode..MaxCode
MaxCode == 9

\* ------------------------------------------------------- program constants

\* the divisor in page_count
PageSize == 50
\* the page index page_count submits ("page 1 does not work")
ProbeIndex == 2

\* ------------------------------------------------------------------ domain

None == "none"

Min2(a, b) == IF a < b THEN a ELSE b

\* Option<T>: <<>> is None, <<x>> is Some(x)
Some(x) == <<x>>
Nothing == <<>>

\* enum Campus and its discriminants
Campus == {"EAD", "FLO", "JOI", "CBS", "ARA", "BLN"}

CampusCode(c) ==
    CASE c = "EAD" -> 0
      [] c = "FLO" -> 1
      [] c = "JOI" -> 2
      [] c = "CBS" -> 3
      [] c = "ARA" -> 4
      [] c = "BLN" -> 5

\* the campus slices the caller passes in the scenarios
CampiChoices == { <<>>, <<"FLO">>, <<"FLO", "JOI">>, <<"FLO", "JOI", "CBS">> }

\* what the term dropdown of the landing page holds in the scenarios: the
\* value attribute of each option, None for an option without one
DropdownChoices ==
    { <<>>, <<"20202">>, <<"20202", None, "20201">>, <<"20202", "20201", "20192">> }

\* ------------------------------------------------------------ time slots

\* A string is a sequence of one-character strings.
DigitChars == <<"0", "1", "2", "3", "4", "5", "6", "7", "8", "9">>
IsDigit(ch) == \E i \in 1..10 : DigitChars[i] = ch
DigitVal(ch) == (CHOOSE i \in 1..10 : DigitChars[i] = ch) - 1

\* i32::MAX
I32Max == 2147483647

\* the first position where pat occurs in s, 0 when it does not occur
FindFirst(s, pat) ==
    LET hits == { i \in 1..(Len(s) - Len(pat) + 1) :
                    SubSeq(s, i, i + Len(pat) - 1) = pat }
    IN  IF hits = {} THEN 0 ELSE CHOOSE i \in hits : \A j \in hits : i <= j

\* fn split_once: s.splitn(2, pat), Err(InvalidTime) unless there are two parts
split_once(s, pat) ==
    LET at == FindFirst(s, pat) IN
    IF at = 0 THEN [ok |-> FALSE, a |-> <<>>, b |-> <<>>]
    ELSE [ok |-> TRUE, a |-> SubSeq(s, 1, at - 1),
          b |-> SubSeq(s, at + Len(pat), Len(s))]

\* the digits of a string as a magnitude below or at limit: checked
\* multiply-and-add from the left, as the integer parsers of core do
RECURSIVE Accumulate(_, _, _)
Accumulate(digits, acc, limit) ==
    IF digits = <<>> THEN [ok |-> TRUE, val |-> acc]
    ELSE LET d == DigitVal(Head(digits)) IN
         IF acc > (limit - d) \div 10 THEN [ok |-> FALSE, val |-> 0]
         ELSE Accumulate(Tail(digits), acc * 10 + d, limit)

AllDigits(s) == \A i \in 1..Len(s) : IsDigit(s[i])

\* the same for a string with a minus sign: checked multiply-and-subtract
\* down to i32::MIN = -I32Max - 1
RECURSIVE AccumulateNeg(_, _)
AccumulateNeg(digits, acc) ==
    IF digits = <<>> THEN [ok |-> TRUE, val |-> acc]
    ELSE LET d == DigitVal(Head(digits))
             q == I32Max \div 10
             r == I32Max % 10
         IN  IF acc < 0 - q \/ (acc = 0 - q /\ d > r + 1) THEN [ok |-> FALSE, val |-> 0]
             ELSE AccumulateNeg(Tail(digits), acc * 10 - d)

\* str::parse::<i32>: an optional sign, then one digit or more, within
\* i32::MIN..=i32::MAX
ParseI32(s) ==
    LET signed == s # <<>> /\ Head(s) \in {"+", "-"}
        digits == IF signed THEN Tail(s) ELSE s
        mag == IF signed /\ Head(s) = "-" THEN AccumulateNeg(digits, 0)
               ELSE Accumulate(digits, 0, I32Max)
    IN  IF digits = <<>> \/ ~AllDigits(digits) \/ ~mag.ok
        THEN [ok |-> FALSE, val |-> 0]
        ELSE [ok |-> TRUE, val |-> mag.val]

\* str::parse::<u32>: an optional "+", then one digit or more.  TLC's
\* integers end at I32Max: a string above it is refused here, though u32
\* holds it up to u32::MAX; the strings of the scenarios are far below
ParseU32(s) ==
    LET signed == s # <<>> /\ Head(s) = "+"
        digits == IF signed THEN Tail(s) ELSE s
        mag == Accumulate(digits, 0, I32Max)
    IN  IF digits = <<>> \/ ~AllDigits(digits) \/ ~mag.ok
        THEN [ok |-> FALSE, val |-> 0]
        ELSE [ok |-> TRUE, val |-> mag.val]

\* char::is_whitespace, for the whitespace the strings here hold
IsSpace(ch) == ch \in {" ", "\n"}

\* str::trim
RECURSIVE TrimStart(_)
TrimStart(s) == IF s # <<>> /\ IsSpace(Head(s)) THEN TrimStart(Tail(s)) ELSE s
RECURSIVE TrimEnd(_)
TrimEnd(s) ==
    IF s # <<>> /\ IsSpace(s[Len(s)]) THEN TrimEnd(SubSeq(s, 1, Len(s) - 1)) ELSE s
Trim(s) == TrimEnd(TrimStart(s))

\* the longest run of digits at the head of s, up to width characters
LeadingDigits(s, width) ==
    LET lens == { k \in 0..Min2(width, Len(s)) : \A i \in 1..k : IsDigit(s[i]) }
    IN  CHOOSE k \in lens : \A j \in lens : j <= k

\* NaiveTime::parse_from_str(time, "%H%M"): the hour is one or two digits,
\* the minute one or two digits after it, nothing may follow, and the hour
\* is below 24 and the minute below 60
ParseHHMM(s) ==
    LET hl == LeadingDigits(s, 2)
        rest == SubSeq(s, hl + 1, Len(s))
        ml == LeadingDigits(rest, 2)
        h == Accumulate(SubSeq(s, 1, hl), 0, I32Max).val
        m == Accumulate(SubSeq(rest, 1, ml), 0, I32Max).val
    IN  IF hl = 0 \/ ml = 0 \/ ml # Len(rest) \/ h > 23 \/ m > 59
        THEN [ok |-> FALSE, hour |-> 0, minute |-> 0]
        ELSE [ok |-> TRUE, hour |-> h, minute |-> m]

\* a variant of the weekday table that starts the week on Monday
WeekdayOfMondayFirst(code) ==
    CASE code = 1 -> Some("Mon")
      [] code = 2 -> Some("Tue")
      [] code = 3 -> Some("Wed")
      [] code = 4 -> Some("Thu")
      [] code = 5 -> Some("Fri")
      [] code = 6 -> Some("Sat")
      [] code = 7 -> Some("Sun")
      [] OTHER -> Nothing

\* the match on the weekday code; Nothing is the `_` arm
WeekdayOf(code) ==
    CASE code = 1 -> Some("Sun")
      [] code = 2 -> Some("Mon")
      [] code = 3 -> Some("Tue")
      [] code = 4 -> Some("Wed")
      [] code = 5 -> Some("Thu")
      [] code = 6 -> Some("Fri")
      [] code = 7 -> Some("Sat")
      [] OTHER -> Nothing

TimeErr(e) ==
    [ok |-> FALSE, err |-> e, weekday |-> None, hour |-> 0, minute |-> 0,
     credits |-> 0, place |-> <<>>]

\* a variant that parses the clock time before the credit-span
Time_from_str_clock_first(s) ==
    LET r1 == split_once(s, <<" ", "/", " ">>) IN
    IF ~r1.ok THEN TimeErr("InvalidTime") ELSE
    LET r2 == split_once(r1.a, <<".">>) IN
    IF ~r2.ok THEN TimeErr("InvalidTime") ELSE
    LET code == ParseI32(r2.a) IN
    IF ~code.ok THEN TimeErr("ParseIntError") ELSE
    LET weekday == WeekdayOf(code.val) IN
    IF weekday = Nothing THEN TimeErr("InvalidTime") ELSE
    LET r3 == split_once(r2.b, <<"-">>) IN
    IF ~r3.ok THEN TimeErr("InvalidTime") ELSE
    LET time == ParseHHMM(r3.a) IN
    IF ~time.ok THEN TimeErr("ParseError") ELSE
    LET credits == ParseU32(Trim(r3.b)) IN
    IF ~credits.ok THEN TimeErr("ParseIntError") ELSE
    [ok |-> TRUE, err |-> None, weekday |-> weekday[1], hour |-> time.hour,
     minute |-> time.minute, credits |-> credits.val, place |-> r1.b]

\* <Time as FromStr>::from_str
Time_from_str(s) ==
    LET r1 == split_once(s, <<" ", "/", " ">>) IN
    IF ~r1.ok THEN TimeErr("InvalidTime") ELSE
    LET place == r1.b
        r2 == split_once(r1.a, <<".">>)
    IN
    IF ~r2.ok THEN TimeErr("InvalidTime") ELSE
    LET code == ParseI32(r2.a) IN
    IF ~code.ok THEN TimeErr("ParseIntError") ELSE
    LET weekday == WeekdayOf(code.val) IN
    IF weekday = Nothing THEN TimeErr("InvalidTime") ELSE
    LET r3 == split_once(r2.b, <<"-">>) IN
    IF ~r3.ok THEN TimeErr("InvalidTime") ELSE
    LET credits == ParseU32(Trim(r3.b)) IN
    IF ~credits.ok THEN TimeErr("ParseIntError") ELSE
    LET time == ParseHHMM(r3.a) IN
    IF ~time.ok THEN TimeErr("ParseError") ELSE
    [ok |-> TRUE, err |-> None, weekday |-> weekday[1], hour |-> time.hour,
     minute |-> time.minute, credits |-> credits.val, place |-> place]

\* ------------------------------------------------------------- row parsing

\* str::lines: the pieces between line feeds; a line feed at the very end
\* opens no further line, and the empty string has no line at all
RECURSIVE Lines(_)
Lines(s) ==
    IF s = <<>> THEN <<>>
    ELSE LET at == FindFirst(s, <<"\n">>) IN
         IF at = 0 THEN <<s>>
         ELSE <<SubSeq(s, 1, at - 1)>> \o Lines(SubSeq(s, at + 1, Len(s)))

\* .lines().map(str::trim)
TrimmedLines(s) == LET ls == Lines(s) IN [i \in 1..Len(ls) |-> Trim(ls[i])]

\* str::trim_matches(['[', ']'])
RECURSIVE TrimBrackets(_)
TrimBrackets(s) ==
    IF s # <<>> /\ Head(s) \in {"[", "]"} THEN TrimBrackets(Tail(s))
    ELSE IF s # <<>> /\ s[Len(s)] \in {"[", "]"}
         THEN TrimBrackets(SubSeq(s, 1, Len(s) - 1))
    ELSE s

\* fields[i] of the Vec of cell texts, i counted from 0, and whether the
\* index is within the Vec (indexing past the end panics)
Field(fields, i) == fields[i + 1]
InBounds(fields, i) == i < Len(fields)

ClassErr(e) == [kind |-> "err", err |-> e]
ClassPanic == [kind |-> "panic"]

\* a variant that parses the waiting cell as the other numeric cells
WaitingStrict(cell) == ParseU32(cell)

\* if fields[11].is_empty() { 0 } else { fields[11].parse()? }
Waiting(cell) == IF cell = <<>> THEN [ok |-> TRUE, val |-> 0] ELSE ParseU32(cell)

\* .lines().map(str::trim).map(str::parse).collect::<Result<_>>(): the slots
\* of the lines in order, or the error of the first line that has one
RECURSIVE CollectTimes(_, _)
CollectTimes(lines, acc) ==
    IF lines = <<>> THEN [ok |-> TRUE, err |-> None, times |-> acc]
    ELSE LET t == Time_from_str(Head(lines)) IN
         IF t.ok THEN CollectTimes(Tail(lines), Append(acc, t))
         ELSE [ok |-> FALSE, err |-> t.err, times |-> <<>>]

\* Class::from_html on the td cells of one row, in the order of the code: the
\* cells are trimmed, then read by index; an index past the last cell panics
Class_from_html(cells) ==
    LET fields == [i \in 1..Len(cells) |-> Trim(cells[i])] IN
    IF ~InBounds(fields, 3) \/ ~InBounds(fields, 4) \/ ~InBounds(fields, 5)
    THEN ClassPanic ELSE
    LET l == TrimmedLines(Field(fields, 5)) IN
    IF l = <<>> THEN ClassErr("NoCourseTitle") ELSE
    LET labels == [i \in 1..(Len(l) - 1) |-> TrimBrackets(l[i + 1])] IN
    IF ~InBounds(fields, 6) THEN ClassPanic ELSE
    LET credits == ParseU32(Field(fields, 6)) IN
    IF ~credits.ok THEN ClassErr("ParseIntError") ELSE
    IF ~InBounds(fields, 7) THEN ClassPanic ELSE
    LET capacity == ParseU32(Field(fields, 7)) IN
    IF ~capacity.ok THEN ClassErr("ParseIntError") ELSE
    IF ~InBounds(fields, 8) THEN ClassPanic ELSE
    LET enrolled == ParseU32(Field(fields, 8)) IN
    IF ~enrolled.ok THEN ClassErr("ParseIntError") ELSE
    IF ~InBounds(fields, 11) THEN ClassPanic ELSE
    LET waiting == Waiting(Field(fields, 11)) IN
    IF ~waiting.ok THEN ClassErr("ParseIntError") ELSE
    IF ~InBounds(fields, 12) THEN ClassPanic ELSE
    LET times == CollectTimes(TrimmedLines(Field(fields, 12)), <<>>) IN
    IF ~times.ok THEN ClassErr(times.err) ELSE
    IF ~InBounds(fields, 13) THEN ClassPanic ELSE
    LET professors == TrimmedLines(Field(fields, 13)) IN
    [kind |-> "ok",
     class |-> [id |-> Field(fields, 4),
                course |-> [id |-> Field(fields, 3), title |-> l[1],
                            credits |-> credits.val],
                labels |-> labels, capacity |-> capacity.val,
                enrolled |-> enrolled.val, waiting |-> waiting.val,
                times |-> times.times, professors |-> professors]]


\* ------------------------------------------------------------ page parsing

\* A row of the table, by what Class::from_html does with it:
\*   a class id : the row parses to that class
\*   "bad"      : a cell fails to parse, from_html returns Err
\*   "short"    : the row has fewer cells than the indices read, fields[i] panics
BadRow == "bad"
ShortRow == "short"

DocA == [table |-> TRUE,  rows |-> <<"c1", "c2">>]
DocB == [table |-> TRUE,  rows |-> <<"c3">>]
DocE == [table |-> TRUE,  rows |-> <<>>]
DocN == [table |-> FALSE, rows |-> <<>>]
DocR == [table |-> TRUE,  rows |-> <<"c4", BadRow, ShortRow>>]
DocS == [table |-> TRUE,  rows |-> <<"c5", ShortRow, BadRow>>]

\* the page bodies the site serves in the single-session scenarios
Docs == {DocA, DocB, DocE, DocN, DocR, DocS}
\* and in the fan-out scenarios: a page that parses, one without the table,
\* one with a row that is too short
FanOutDocs == {DocA, DocN, DocS}

\* the td cells of a row that parses: course id at 3, class id at 4, title
\* at 5, credits, capacity and enrolled at 6 to 8, waiting at 11 (empty),
\* one schedule line at 12, one professor at 13
GoodCells(id) ==
    << <<>>, <<>>, <<>>, <<"I", "N", "E">>, <<id>>, <<"T">>, <<"4">>,
       <<"3", "0">>, <<"9">>, <<>>, <<>>, <<>>,
       <<"2", ".", "0", "8", "0", "0", "-", "2", " ", "/", " ", "A">>,
       <<"P">> >>

\* the width of a row cut off before its title cell
ShortWidth == 5

\* the td cells of each row of the pages
RowCells(row) ==
    CASE row = ShortRow -> SubSeq(GoodCells(row), 1, ShortWidth)
      [] row = BadRow   -> [GoodCells(row) EXCEPT ![7] = <<"x">>]
      [] OTHER          -> GoodCells(row)

\* Class::from_html on one row, by the kind of the row: what
\* Class_from_html gives on the cells of the row, a class being carried on
\* by the id of its row
RowFromHtml(row) ==
    CASE row = ShortRow -> [kind |-> "panic"]
      [] row = BadRow   -> [kind |-> "err", err |-> "RowParse"]
      [] OTHER          -> [kind |-> "ok", class |-> row]

\* table.find(Name("tr")).map(Class::from_html).collect::<Result<Vec<_>>>():
\* rows are parsed in document order and the first Err (or panic) ends it
RECURSIVE CollectRows(_, _)
CollectRows(rows, acc) ==
    IF rows = <<>> THEN [kind |-> "ok", classes |-> acc]
    ELSE LET r == RowFromHtml(Head(rows)) IN
         IF r.kind = "ok" THEN CollectRows(Tail(rows), Append(acc, r.class))
         ELSE r

\* a variant that takes a missing table for an empty one
classes_from_html_lenient(doc) == CollectRows(doc.rows, <<>>)

\* parse::classes_from_html
classes_from_html(doc) ==
    IF ~doc.table THEN [kind |-> "err", err |-> "TableNotFound"]
    ELSE CollectRows(doc.rows, <<>>)

\* ------------------------------------------------------------- page count

\* the probe's result-count element, as the document holds it:
\*   <<>>             : no span#formBusca:dataTableGroup > span in the document
\*   <<"garbage">>    : the element is there, its inner html is no u32
\*   <<"num", c>>     : its inner html is the number c
CountAbsent == <<>>
CountGarbage == <<"garbage">>
CountNum(c) == <<"num", c>>

\* a variant whose fallback is one entry instead of none
EntriesOfOne(cell) == IF Len(cell) = 2 THEN cell[2] ELSE 1

\* .next().and_then(|node| node.inner_html().parse::<u32>().ok()).unwrap_or(0)
EntriesOf(cell) == IF Len(cell) = 2 THEN cell[2] ELSE 0

\* a variant that truncates instead of rounding up
FloorDiv(entries) == entries \div PageSize

\* (f64::from(entries) / 50.).ceil() as usize; the quotient of a u32 by 50 is
\* exact enough in f64 that ceil gives the integer ceiling
CeilDiv(entries) ==
    (entries \div PageSize) + (IF entries % PageSize = 0 THEN 0 ELSE 1)

page_count(cell) == CeilDiv(EntriesOf(cell))

\* ------------------------------------------------------------- form data

\* a variant that submits the first campus of the enum whatever the session's
form_data_any_campus(campus, term, page_index) ==
    [ formBusca    |-> "formBusca",
      ViewState    |-> "j_id1",
      selectSemestre |-> term,
      selectCampus |-> 0,
      dataScroller1 |-> page_index ]

\* fn form_data
form_data(campus, term, page_index) ==
    [ formBusca    |-> "formBusca",
      ViewState    |-> "j_id1",
      selectSemestre |-> term,
      selectCampus |-> CampusCode(campus),
      dataScroller1 |-> page_index ]

\* the requests a session sends
PrimeRequest == [kind |-> "prime", form |-> Nothing]
ProbeRequest(campus, term) ==
    [kind |-> "probe", form |-> Some(form_data(campus, term, ProbeIndex))]
PageRequest(campus, term, page_index) ==
    [kind |-> "page", form |-> Some(form_data(campus, term, page_index))]

\* ------------------------------------------------------------------ state

VARIABLES
    n,          \* argument n of scrape_last_n_terms
    campi,      \* argument campi of scrape_last_n_terms
    site,       \* the site: the result-count cells, page bodies and HTTP
                \* statuses it answers with
    phase,      \* "start", "running", "returned", "panicked"
    discovered, \* what available_terms() returned: Nothing before it has
    tasks,      \* the futures pushed to FuturesUnordered: <<campus, term>> each
    sess,       \* the state of each task's future
    results,    \* the Vec that collect() is filling, in completion order
    returned,   \* what the caller of scrape_last_n_terms holds: Nothing until it returns
    main,       \* the caller (main): how far its loop is, the files written,
                \* and how it exited: None while it runs, "ok", "err", "io"
    call        \* a call of one of the pure functions: its argument and result

vars == <<n, campi, site, phase, discovered, tasks, sess, results, returned, main, call>>

Sessions == 1..Len(tasks)

\* main before its loop
NewMain == [pos |-> 0, files |-> {}, exit |-> None]

\* a future that has not been polled yet
NewSession(campus, term) ==
    [ campus |-> campus, term |-> term,
      pc |-> "new",            \* new, priming, counting, paginating, done, failed
      pages |-> Nothing,       \* the value of self.page_count(), once known
      page |-> 0,              \* page_index of the request in flight
      previous |-> Nothing,    \* previous: Option<String>
      entries |-> <<>>,        \* entries: Vec<Class>
      err |-> None,            \* the error the session ended with
      reqs |-> <<>>,           \* history: the requests sent so far, in order
      resps |-> <<>>,          \* history: how each request came back, in order
      jar |-> {},              \* the cookie store of self.client
      cookies |-> <<>>,        \* history: the cookies sent with each request, in order
      primed |-> Nothing,      \* history: the HTTP status of the priming response
      count |-> Nothing,       \* history: the result-count cell of the probe response
      bodies |-> <<>> ]        \* history: the page bodies received so far, in order

\* the Result a finished future yields; task is the index of the future
\* (a ghost field: the Rust value does not carry it)
OkOutcome(s, campus, term, classes) ==
    [task |-> s, ok |-> TRUE, campus |-> campus, term |-> term,
     classes |-> classes, err |-> None]
ErrOutcome(s, e) ==
    [task |-> s, ok |-> FALSE, campus |-> None, term |-> None,
     classes |-> <<>>, err |-> e]

\* ------------------------------------------------------------ the site

\* what a request can come back with: the send fails, reading the body
\* fails, or a response arrives (whose HTTP status the code never reads)
Statuses == {200, 500}

\* result-count cells that give up to maxPages pages: full pages, a last
\* page with one entry, no element, an unparsable element
CountCells(maxPages) ==
    {CountAbsent, CountGarbage}
        \cup { CountNum(c) : c \in { k * PageSize : k \in 0..maxPages }
                                    \cup { (k - 1) * PageSize + 1 : k \in 1..maxPages } }

\* the site of the single-session scenarios
SessionSite ==
    [ cells |-> CountCells(MaxPages), docs |-> Docs, statuses |-> Statuses ]

\* the site of the fan-out scenarios: every outcome of a session (no page,
\* pages, a repeat, an error, a panic) with fewer ways to reach each
FanOutSite ==
    [ cells |-> {CountAbsent} \cup { CountNum(k * PageSize) : k \in 0..OrchPages },
      docs |-> FanOutDocs, statuses |-> {200} ]

\* -------------------------------------------------------- session steps

\* the session cookie the site sets in its answer to the priming request of
\* session s
Cookie(s) == [name |-> "JSESSIONID", to |-> s]

\* cookie_store(true): a request carries the cookies of its client's store
Attach(st) == st.jar

Finished(s) == sess[s].pc \in {"done", "failed"}

\* the future resolves to Err(e): `?` returns early, entries is dropped
Fail(s, st, e) ==
    /\ sess' = [sess EXCEPT ![s] = [st EXCEPT !.pc = "failed", !.err = e,
                                              !.entries = <<>>, !.previous = Nothing]]
    /\ results' = Append(results, ErrOutcome(s, e))
    /\ UNCHANGED phase

\* the future resolves to Ok((self.campus, self.term, entries))
Succeed(s, st) ==
    /\ sess' = [sess EXCEPT ![s] = [st EXCEPT !.pc = "done"]]
    /\ results' = Append(results, OkOutcome(s, st.campus, st.term, st.entries))
    /\ UNCHANGED phase

\* a panic inside a future unwinds through collect() and the caller: the
\* other futures are dropped where they stand and nothing is returned
Panic(s, st) ==
    /\ sess' = [sess EXCEPT ![s] = [st EXCEPT !.pc = "panicked"]]
    /\ phase' = "panicked"
    /\ UNCHANGED results

\* how a request came back, for the history: a response arrived, or none did
Arrived == TRUE
Lost == FALSE

\* Cagr::new up to its first await: build the client, send the priming POST
Start(s) ==
    /\ phase = "running"
    /\ sess[s].pc = "new"
    /\ \E built \in BOOLEAN :
          IF built
          THEN /\ sess' = [sess EXCEPT ![s].pc = "priming",
                                       ![s].reqs = Append(@, PrimeRequest),
                                       ![s].cookies = Append(@, Attach(sess[s]))]
               /\ UNCHANGED <<phase, results>>
          ELSE Fail(s, sess[s], "Build")
    /\ UNCHANGED <<n, campi, site, discovered, tasks, returned, main, call>>

\* the priming POST comes back; Cagr::new returns, and_then calls scrape,
\* scrape calls page_count, which sends the probe
PrimeDone(s) ==
    /\ phase = "running"
    /\ sess[s].pc = "priming"
    /\ \E sent \in BOOLEAN, status \in site.statuses :
          IF sent
          THEN LET st == [sess[s] EXCEPT !.jar = @ \cup {Cookie(s)}] IN
               /\ sess' = [sess EXCEPT
                     ![s] = [st EXCEPT
                               !.pc = "counting",
                               !.resps = Append(@, Arrived),
                               !.primed = Some(status),
                               !.reqs = Append(@, ProbeRequest(st.campus, st.term)),
                               !.cookies = Append(@, Attach(st))]]
               /\ UNCHANGED <<phase, results>>
          ELSE Fail(s, [sess[s] EXCEPT !.resps = Append(@, Lost)], "Http")
    /\ UNCHANGED <<n, campi, site, discovered, tasks, returned, main, call>>

\* a variant that submits the index after the loop's
SendPageAhead(st, page_index) ==
    [st EXCEPT !.pc = "paginating", !.page = page_index,
               !.reqs = Append(@, PageRequest(st.campus, st.term, page_index + 1)),
               !.cookies = Append(@, Attach(st))]

\* the state of scrape as it enters the loop body for page_index, as far as
\* the send of that page's request
SendPage(st, page_index) ==
    [st EXCEPT !.pc = "paginating", !.page = page_index,
               !.reqs = Append(@, PageRequest(st.campus, st.term, page_index)),
               !.cookies = Append(@, Attach(st))]

\* the probe comes back; page_count returns and scrape enters
\* `for page_index in 1..=pages`
ProbeDone(s) ==
    /\ phase = "running"
    /\ sess[s].pc = "counting"
    /\ \E sent \in BOOLEAN, read \in BOOLEAN, status \in site.statuses, cell \in site.cells :
          IF sent /\ read
          THEN LET pages == page_count(cell)
                   st == [sess[s] EXCEPT !.pages = Some(pages),
                                         !.resps = Append(@, Arrived),
                                         !.count = Some(cell)]
               IN  IF 1 <= pages
                   THEN /\ sess' = [sess EXCEPT ![s] = SendPage(st, 1)]
                        /\ UNCHANGED <<phase, results>>
                   ELSE Succeed(s, st)
          ELSE Fail(s, [sess[s] EXCEPT !.resps = Append(@, Lost)], "Http")
    /\ UNCHANGED <<n, campi, site, discovered, tasks, returned, main, call>>

\* Some(&contents) == previous.as_ref()
IsRepeat(previous, contents) == previous = Some(contents)

\* a variant that never retains the body
ReplaceNever(previous, contents) == previous

\* previous.replace(contents.clone())
Replace(previous, contents) == Some(contents)

\* the range 1..=pages has a next index after page_index
HasNext(page_index, pages) == page_index < pages

\* a page comes back: the rest of the loop body, then the next iteration's
\* send or the return
PageDone(s) ==
    /\ phase = "running"
    /\ sess[s].pc = "paginating"
    /\ \E sent \in BOOLEAN, read \in BOOLEAN, status \in site.statuses, contents \in site.docs :
          IF sent /\ read
          THEN LET got == [sess[s] EXCEPT !.bodies = Append(@, contents),
                                          !.resps = Append(@, Arrived)]
                   parsed == classes_from_html(contents)
               IN  IF IsRepeat(got.previous, contents)
                   THEN Succeed(s, got)
                   ELSE CASE parsed.kind = "panic" -> Panic(s, got)
                          [] parsed.kind = "err" -> Fail(s, got, parsed.err)
                          [] OTHER ->
                               LET st == [got EXCEPT
                                            !.entries = @ \o parsed.classes,
                                            !.previous = Replace(@, contents)]
                               IN  IF HasNext(st.page, st.pages[1])
                                   THEN /\ sess' = [sess EXCEPT
                                                      ![s] = SendPage(st, st.page + 1)]
                                        /\ UNCHANGED <<phase, results>>
                                   ELSE Succeed(s, st)
          ELSE Fail(s, [sess[s] EXCEPT !.resps = Append(@, Lost)], "Http")
    /\ UNCHANGED <<n, campi, site, discovered, tasks, returned, main, call>>

\* ---------------------------------------------------------- orchestrator

\* document.find(options).filter_map(|option| option.attr("value"))
RECURSIVE OptionValues(_)
OptionValues(options) ==
    IF options = <<>> THEN <<>>
    ELSE IF Head(options) = None THEN OptionValues(Tail(options))
         ELSE <<Head(options)>> \o OptionValues(Tail(options))

\* a variant that keeps every term
TakeAll(seq, k) == seq

\* .into_iter().take(n).collect()
Take(seq, k) == SubSeq(seq, 1, IF k < Len(seq) THEN k ELSE Len(seq))

\* for term in terms { for &campus in campi { tasks.push(..) } }
RECURSIVE PushTasks(_, _)
PushTasks(terms, cs) ==
    IF terms = <<>> THEN <<>>
    ELSE [i \in 1..Len(cs) |-> <<cs[i], Head(terms)>>] \o PushTasks(Tail(terms), cs)

\* available_terms().await.unwrap(), take(n), and the pushes: everything up
\* to the first poll of the tasks
Discover ==
    /\ phase = "start"
    /\ \E fetched \in BOOLEAN, dropdown \in DropdownChoices :
          IF fetched
          THEN LET terms == Take(OptionValues(dropdown), n)
                   pushed == PushTasks(terms, campi)
               IN  /\ Len(pushed) <= MaxSessions
                   /\ discovered' = Some(OptionValues(dropdown))
                   /\ tasks' = pushed
                   /\ sess' = [i \in 1..Len(pushed) |->
                                  NewSession(pushed[i][1], pushed[i][2])]
                   /\ phase' = "running"
          ELSE \* unwrap() on Err panics
               /\ phase' = "panicked"
               /\ UNCHANGED <<discovered, tasks, sess>>
    /\ UNCHANGED <<n, campi, site, results, returned, main, call>>

\* a variant that resolves with the first finished future
AnyFinished == Sessions = {} \/ \E s \in Sessions : Finished(s)

\* tasks.collect().await resolves: the stream of futures is exhausted
AllFinished == \A s \in Sessions : Finished(s)

Return ==
    /\ phase = "running"
    /\ AllFinished
    /\ phase' = "returned"
    /\ returned' = Some(results)
    /\ UNCHANGED <<n, campi, site, discovered, tasks, sess, results, main, call>>

\* ------------------------------------------------------------- the caller

\* format!("{:?}-{}.cbor", campus, term): Debug of a Campus is its name
FileName(campus, term) == <<campus, "-", term, ".cbor">>

\* File::create(name) then serde_cbor::to_writer(file, &classes): create
\* truncates or makes the file, the write fills it; either can fail, and a
\* failed write leaves a file without the whole list (contents Nothing)
Create(files, name) ==
    { f \in files : f.name # name } \cup { [name |-> name, contents |-> Nothing] }
WriteTo(files, name, classes) ==
    { f \in files : f.name # name } \cup { [name |-> name, contents |-> Some(classes)] }

\* `dataset?` on an Err: main returns it, the loop is left
Question(m) == [m EXCEPT !.exit = "err"]

\* one iteration of `for dataset in datasets` in main
MainStep ==
    /\ returned # Nothing
    /\ main.exit = None
    /\ main.pos < Len(returned[1])
    /\ LET dataset == returned[1][main.pos + 1] IN
       IF ~dataset.ok THEN main' = Question(main)
       ELSE IF dataset.classes = <<>> THEN main' = [main EXCEPT !.pos = @ + 1]
       ELSE LET name == FileName(dataset.campus, dataset.term) IN
            \E io \in {"ok", "create fails", "write fails"} :
               main' = CASE io = "ok" ->
                              [main EXCEPT !.pos = @ + 1,
                                           !.files = WriteTo(@, name, dataset.classes)]
                         [] io = "write fails" ->
                              [main EXCEPT !.exit = "io", !.files = Create(@, name)]
                         [] OTHER -> [main EXCEPT !.exit = "io"]
    /\ UNCHANGED <<n, campi, site, phase, discovered, tasks, sess, results, returned, call>>

\* the loop has run out: Ok(())
MainEnd ==
    /\ returned # Nothing
    /\ main.exit = None
    /\ main.pos = Len(returned[1])
    /\ main' = [main EXCEPT !.exit = "ok"]
    /\ UNCHANGED <<n, campi, site, phase, discovered, tasks, sess, results, returned, call>>

\* ------------------------------------------------------- specifications

NoCall == [fn |-> None, arg |-> <<>>, out |-> Nothing]

InitCommon ==
    /\ call = NoCall
    /\ phase = "start"
    /\ discovered = Nothing
    /\ tasks = <<>>
    /\ sess = <<>>
    /\ results = <<>>
    /\ returned = Nothing
    /\ main = NewMain

\* the fan-out scenarios
Init ==
    /\ n \in 0..MaxN
    /\ campi \in CampiChoices
    /\ site = FanOutSite
    /\ InitCommon

Next ==
    \/ Discover
    \/ \E s \in Sessions : Start(s)
    \/ \E s \in Sessions : PrimeDone(s)
    \/ \E s \in Sessions : ProbeDone(s)
    \/ \E s \in Sessions : PageDone(s)
    \/ Return
    \/ MainStep
    \/ MainEnd

Spec == Init /\ [][Next]_vars

\* the single-session scenarios: one term, one campus, up to MaxPages pages
InitSession ==
    /\ n = 1
    /\ campi = <<"FLO">>
    /\ site = SessionSite
    /\ InitCommon

SpecSession == InitSession /\ [][Next]_vars

\* --------------------------------------------- the pure functions, called

\* nothing of the fan-out runs in the scenarios that call a pure function
InitIdle ==
    /\ n = 0
    /\ campi = <<>>
    /\ site = SessionSite
    /\ phase = "returned"
    /\ discovered = Nothing
    /\ tasks = <<>>
    /\ sess = <<>>
    /\ results = <<>>
    /\ returned = Nothing
    /\ main = NewMain

Idle == UNCHANGED <<n, campi, site, phase, discovered, tasks, sess, results, returned, main>>

\* page_count on a probe response with each result-count cell
InitPageCount ==
    /\ InitIdle
    /\ \E cell \in {CountAbsent, CountGarbage} \cup { CountNum(c) : c \in 0..MaxCount } :
          call = [fn |-> "page_count", arg |-> cell, out |-> Nothing]

CallPageCount ==
    /\ call.fn = "page_count"
    /\ call.out = Nothing
    /\ call' = [call EXCEPT !.out = Some(page_count(call.arg))]
    /\ Idle

SpecPageCount == InitPageCount /\ [][CallPageCount]_vars

\* the decimal digits of a natural number, as i32's Display writes them
RECURSIVE DecimalNat(_)
DecimalNat(k) ==
    IF k < 10 THEN <<DigitChars[k + 1]>>
    ELSE DecimalNat(k \div 10) \o <<DigitChars[(k % 10) + 1]>>

Decimal(k) == IF k < 0 THEN <<"-">> \o DecimalNat(0 - k) ELSE DecimalNat(k)

\* the weekday codes of the schedule lines, each with what it is: an integer
\* or not, one that i32 holds or not, and its value when it does
CodeInputs ==
    { [text |-> Decimal(k), int |-> TRUE, fits |-> TRUE, val |-> k] :
        k \in ((0 - MaxCode)..MaxCode) \cup {I32Max} }
    \cup { [text |-> DecimalNat(I32Max \div 10) \o <<DigitChars[(I32Max % 10) + 2]>>,
             int |-> TRUE, fits |-> FALSE, val |-> 0],
           [text |-> <<"x">>, int |-> FALSE, fits |-> FALSE, val |-> 0],
           [text |-> <<>>, int |-> FALSE, fits |-> FALSE, val |-> 0] }

\* schedule lines: <code><dot><clock>-<credits> / <place>, each delimiter
\* there or left out, each part good or bad
TimeInputs ==
    { [ line |-> code.text \o dot \o clock \o dash \o credits \o slash \o place,
        code |-> code,
        delimited |-> dot # <<>> /\ dash # <<>> /\ Len(slash) = 3,
        dot |-> dot # <<>>, dash |-> dash # <<>>, slash |-> Len(slash) = 3,
        clock |-> clock, credits |-> credits, place |-> place ] :
        code \in CodeInputs,
        dot \in { <<".">>, <<>> },
        clock \in { <<"0", "8", "0", "0">>, <<"2", "4", "6", "0">> },
        dash \in { <<"-">>, <<>> },
        credits \in { <<"4">>, <<" ", "2">>, <<"x">> },
        slash \in { <<" ", "/", " ">>, <<"/">> },
        place \in { <<"A", "-", "1">>, <<>> } }

\* Time::from_str on each schedule line
InitTime ==
    /\ InitIdle
    /\ \E input \in TimeInputs :
          call = [fn |-> "Time::from_str", arg |-> input, out |-> Nothing]

CallTimeFromStr ==
    /\ call.fn = "Time::from_str"
    /\ call.out = Nothing
    /\ call' = [call EXCEPT !.out = Some(Time_from_str(call.arg.line))]
    /\ Idle

SpecTime == InitTime /\ [][CallTimeFromStr]_vars

\* the number of td cells Class::from_html reads up to: indices 0..13
RowWidth == 14

\* what a numeric cell holds in the scenarios: nothing, blanks, a number, a
\* word
NumericCells == { <<>>, <<" ">>, <<"1", "2">>, <<"x">> }

\* the schedule cell: empty, one line, two lines the second without its " / "
TimesCells ==
    { <<>>,
      <<"2", ".", "0", "8", "0", "0", "-", "2", " ", "/", " ", "A">>,
      <<"3", ".", "1", "0", "1", "0", "-", "3", " ", "/", " ", "B", "\n",
        "4", ".", "1", "0", "1", "0", "-", "3">> }

\* the professors cell: empty, one name, two names on two lines, two names
\* with an empty line between them, two names with a line of blanks between
ProfessorsCells ==
    { <<>>,
      <<"A", "n", "a">>,
      <<"A", "n", "a", "\n", " ", "B", "i", "a">>,
      <<"A", "n", "a", "\n", "\n", "B", "i", "a">>,
      <<"A", "n", "a", "\n", " ", "\n", "B", "i", "a">> }

\* how many of its td cells a row has
Widths == { RowWidth, RowWidth - 2, ShortWidth + 1, ShortWidth }

\* rows: each cell the parser reads with each of its contents, the row cut
\* off after so many cells
RowInputs ==
    { [ cells |-> SubSeq(<< <<>>, <<>>, <<>>, <<"I", "N", "E">>, <<"0", "1">>,
                            title, credits, capacity, enrolled, <<>>, <<>>,
                            waiting, times, professors >>, 1, width),
        width |-> width, title |-> title, credits |-> credits,
        capacity |-> capacity, enrolled |-> enrolled, waiting |-> waiting,
        times |-> times, professors |-> professors ] :
        title \in { <<"T">>, <<>> },
        credits \in NumericCells, capacity \in NumericCells,
        enrolled \in NumericCells, waiting \in NumericCells,
        times \in TimesCells, professors \in ProfessorsCells,
        width \in Widths }

\* Class::from_html on each row
InitRow ==
    /\ InitIdle
    /\ \E input \in RowInputs :
          call = [fn |-> "Class::from_html", arg |-> input, out |-> Nothing]

CallClassFromHtml ==
    /\ call.fn = "Class::from_html"
    /\ call.out = Nothing
    /\ call' = [call EXCEPT !.out = Some(Class_from_html(call.arg.cells))]
    /\ Idle

SpecRow == InitRow /\ [][CallClassFromHtml]_vars

\* ------------------------------------------------------------------ claims

\* the rows of the first k of the bodies, in page order
RECURSIVE RowsOfPages(_, _)
RowsOfPages(bodies, k) ==
    IF k = 0 THEN <<>> ELSE RowsOfPages(bodies, k - 1) \o bodies[k].rows

\* body i repeats the body before it
RepeatsAt(bodies, i) == i >= 2 /\ bodies[i] = bodies[i - 1]

\* the outcomes collected for session s
OutcomesOf(list, s) == { i \in 1..Len(list) : list[i].task = s }

\* C1: scrape stops at the first page whose body equals the body of the page
\* before it, and only there or when the indices run out; the repeated page
\* is not parsed; the class list returned is the rows of the pages consumed
\* before the stop, in page order.
C1_StopsAtFirstRepeat ==
    \A s \in Sessions :
        LET st == sess[s]
            b == st.bodies
            k == Len(b)
        IN  /\ \A i \in 1..(k - 1) : ~RepeatsAt(b, i)
            /\ st.pc = "paginating" =>
                  /\ ~RepeatsAt(b, k)
                  /\ k = st.page - 1
                  /\ st.entries = RowsOfPages(b, k)
            /\ st.pc = "done" =>
                  /\ \/ RepeatsAt(b, k) /\ st.entries = RowsOfPages(b, k - 1)
                     \/ ~RepeatsAt(b, k) /\ k = st.pages[1]
                          /\ st.entries = RowsOfPages(b, k)
                  /\ \E i \in OutcomesOf(results, s) :
                        results[i].ok /\ results[i].classes = st.entries

\* bodies [A, B, B] gave rows(A) followed by rows(B)
C1_Witness ==
    \E s \in Sessions :
        /\ sess[s].pc = "done"
        /\ sess[s].bodies = <<DocA, DocB, DocB>>
        /\ sess[s].entries = <<"c1", "c2", "c3">>

\* the run of scrape_last_n_terms is over
Over == phase \in {"returned", "panicked"}

\* C2: if the session of (TermX, RegionY) fails at any step, the result list
\* still holds a successful outcome for every other region Z of that term
\* whose own requests and parses all succeeded.
C2_SiblingsSurvive ==
    Over =>
        \A y, z \in Sessions :
            ( /\ y # z
              /\ tasks[y][2] = tasks[z][2]
              /\ sess[y].pc \in {"failed", "panicked"}
              /\ sess[z].pc = "done" )
            => /\ returned # Nothing
               /\ \E i \in OutcomesOf(returned[1], z) : returned[1][i].ok

\* C3 as stated: n x |regions| sessions in total
C3_NTimesRegions ==
    discovered # Nothing => Len(tasks) = n * Len(campi)

\* C3, amended: one session per (term, region) pair over the first
\* min(n, number of discovered terms) terms, in source order, and the regions
\* given, min(n, #terms) x |regions| sessions in total; the list returned
\* holds exactly one outcome per session.
C3_OneSessionPerPair ==
    discovered # Nothing =>
        LET found == discovered[1]
            m == Min2(n, Len(found))
        IN  /\ Len(tasks) = m * Len(campi)
            /\ \A i \in 1..m, j \in 1..Len(campi) :
                  Cardinality({ s \in Sessions : tasks[s] = <<campi[j], found[i]>> }) = 1
            /\ \A s \in Sessions :
                  sess[s].campus = tasks[s][1] /\ sess[s].term = tasks[s][2]
            /\ returned # Nothing =>
                  /\ Len(returned[1]) = Len(tasks)
                  /\ \A s \in Sessions : Cardinality(OutcomesOf(returned[1], s)) = 1

\* two sessions ran, over fewer terms than n, and their outcomes came back
C3_Witness ==
    /\ returned # Nothing
    /\ Len(returned[1]) = 2
    /\ n > Len(discovered[1])

\* C4: scrape_last_n_terms returns only after every session has reached its
\* final outcome, with all of them; while a session is running the caller
\* holds no list.
C4_CollectIsJoin ==
    /\ (\E s \in Sessions : ~Finished(s)) => returned = Nothing
    /\ returned # Nothing =>
          /\ phase = "returned"
          /\ returned[1] = results
          /\ \A s \in Sessions : OutcomesOf(returned[1], s) # {}

\* both sessions ended, one in an error, and the list came back
C4_Witness ==
    /\ returned # Nothing
    /\ \E y, z \in Sessions : sess[y].pc = "failed" /\ sess[z].pc = "done"

\* the request a session sends in position i: prime, probe, page 1, page 2, ..
ProtocolRequest(st, i) ==
    CASE i = 1 -> PrimeRequest
      [] i = 2 -> ProbeRequest(st.campus, st.term)
      [] OTHER -> PageRequest(st.campus, st.term, i - 2)

C6_PageCountIsCeiling ==
    (call.fn = "page_count" /\ call.out # Nothing /\ Len(call.arg) = 2) =>
        LET c == call.arg[2]
            p == call.out[1]
        IN  /\ p \in Nat
            /\ 50 * p >= c
            /\ \A q \in 0..(p - 1) : 50 * q < c
            /\ c = 0 => p = 0
            /\ c = 50 => p = 1
            /\ c = 51 => p = 2

\* page_count was called on a count of 51
C6_Witness ==
    /\ call.fn = "page_count"
    /\ call.arg = CountNum(51)
    /\ call.out = Some(2)

\* C7: when the probe response has no result-count element, or one that is
\* no unsigned integer, page_count is 0, no page is requested and the
\* session succeeds with an empty class list for its (Region, Term).
C7_NoCountNoPages ==
    \A s \in Sessions :
        LET st == sess[s] IN
        st.count \in {Some(CountAbsent), Some(CountGarbage)} =>
            /\ st.pages = Some(0)
            /\ st.pc = "done"
            /\ \A i \in 1..Len(st.reqs) : st.reqs[i].kind # "page"
            /\ \E i \in OutcomesOf(results, s) :
                  results[i] = OkOutcome(s, tasks[s][1], tasks[s][2], <<>>)

\* a probe response with an unparsable count ended its session in success
C7_Witness ==
    \E s \in Sessions :
        sess[s].count = Some(CountGarbage) /\ sess[s].pc = "done"

\* a page body that does not parse: no table, or a row off the schema
Unparsable(doc) ==
    ~doc.table \/ \E i \in 1..Len(doc.rows) : doc.rows[i] \in {BadRow, ShortRow}

\* C8: an HTTP failure, or a parse failure on a page, ends the session at
\* once with an error as its outcome: no request follows it and no class is
\* returned.
C8_FailureEndsSession ==
    \A s \in Sessions :
        LET st == sess[s]
            b == st.bodies
            k == Len(b)
        IN  ( \/ \E i \in 1..Len(st.resps) : st.resps[i] = Lost
              \/ \E i \in 1..k : Unparsable(b[i]) )
            => /\ st.pc = "failed"
               /\ Len(st.reqs) = Len(st.resps)
               /\ \A i \in OutcomesOf(results, s) : ~results[i].ok
               /\ OutcomesOf(results, s) # {}

\* C9: a page body without the table makes classes_from_html fail with
\* TableNotFound, never return a class list, and so makes the session's
\* outcome an error.
C9_MissingTableIsError ==
    /\ \A d \in site.docs :
          ~d.table => classes_from_html(d) = [kind |-> "err", err |-> "TableNotFound"]
    /\ \A s \in Sessions :
          LET st == sess[s] IN
          (\E i \in 1..Len(st.bodies) : ~st.bodies[i].table) =>
              /\ st.pc = "failed"
              /\ st.err = "TableNotFound"
              /\ \E i \in OutcomesOf(results, s) :
                    results[i] = ErrOutcome(s, "TableNotFound")
              /\ \A i \in OutcomesOf(results, s) : ~results[i].ok

\* the second page of a session came without the table
C9_Witness ==
    \E s \in Sessions :
        /\ Len(sess[s].bodies) = 2
        /\ ~sess[s].bodies[2].table
        /\ sess[s].pc = "failed"

\* Sunday = 1
SundayFirst == <<"Sun", "Mon", "Tue", "Wed", "Thu", "Fri", "Sat">>

\* the parts of the line other than the weekday code are well formed
RestWellFormed(input) ==
    /\ input.delimited
    /\ input.clock = <<"0", "8", "0", "0">>
    /\ input.credits # <<"x">>

\* codes 1..7 map to Sunday..Saturday
WeekdayMapping(input, out) ==
    (input.code.fits /\ input.code.val \in 1..7) =>
        /\ out.ok => out.weekday = SundayFirst[input.code.val]
        /\ RestWellFormed(input) => out.ok

\* C10 as stated: codes 1..7 map to Sunday..Saturday, and every integer
\* weekday code outside 1..7 fails with InvalidTime.
C10_EveryIntegerCode ==
    (call.fn = "Time::from_str" /\ call.out # Nothing) =>
        LET input == call.arg
            out == call.out[1]
        IN  /\ WeekdayMapping(input, out)
            /\ (input.code.int /\ ~(input.code.fits /\ input.code.val \in 1..7)) =>
                  ~out.ok /\ out.err = "InvalidTime"

\* C10, amended: codes 1..7 map to Sunday..Saturday (Sunday = 1), and every
\* integer weekday code outside 1..7 that a 32-bit signed integer holds fails
\* with InvalidTime; an integer code past that range fails too, with the
\* integer parser's error.
C10_WeekdayCodes ==
    (call.fn = "Time::from_str" /\ call.out # Nothing) =>
        LET input == call.arg
            out == call.out[1]
        IN  /\ WeekdayMapping(input, out)
            /\ (input.code.fits /\ input.code.val \notin 1..7) =>
                  ~out.ok /\ out.err = "InvalidTime"
            /\ (input.code.int /\ ~input.code.fits) =>
                  ~out.ok /\ (input.delimited => out.err = "ParseIntError")

\* a line with code 7 parsed to Saturday
C10_Witness ==
    /\ call.fn = "Time::from_str"
    /\ call.out # Nothing
    /\ call.arg.code.val = 7
    /\ call.out[1].ok
    /\ call.out[1].weekday = "Sat"

\* a cell text that is a number: one digit or more and nothing else
IsNumber(text) == text # <<>> /\ AllDigits(text)

\* Class::from_html was called on a row that has all its cells and a title
RowParsed ==
    /\ call.fn = "Class::from_html"
    /\ call.out # Nothing
    /\ call.arg.width = RowWidth
    /\ call.arg.title # <<>>

\* C11: a row whose waiting cell is empty parses with waiting = 0 (the other
\* cells being good); an empty credits, capacity or enrolled cell makes the
\* row fail; a cell of the four that is not empty and not a number makes the
\* row fail.  A cell is what is left of its text after trimming.
C11_NumericCells ==
    RowParsed =>
        LET in == call.arg
            out == call.out[1]
            required == { Trim(in.credits), Trim(in.capacity), Trim(in.enrolled) }
            waiting == Trim(in.waiting)
        IN  /\ (\E c \in required : c = <<>>) => out.kind = "err"
            /\ (\E c \in required \cup {waiting} : c # <<>> /\ ~IsNumber(c))
                  => out.kind = "err" /\ out.err = "ParseIntError"
            /\ ( /\ waiting = <<>>
                 /\ \A c \in required : IsNumber(c)
                 /\ \A i \in 1..Len(TrimmedLines(in.times)) :
                        Time_from_str(TrimmedLines(in.times)[i]).ok )
                  => out.kind = "ok" /\ out.class.waiting = 0
            /\ (waiting = <<>> /\ out.kind = "ok") => out.class.waiting = 0

\* a row with an empty waiting cell and three numbers parsed, waiting = 0
C11_Witness ==
    /\ RowParsed
    /\ call.arg.waiting = <<>>
    /\ call.arg.credits = <<"1", "2">>
    /\ call.out[1].kind = "ok"
    /\ call.out[1].class.waiting = 0
    /\ call.out[1].class.course.credits = 12

\* the priming call of a session did not complete: the request failed at the
\* network level, or the response carries a status outside 200..299
PrimingIncomplete(st) ==
    /\ Len(st.resps) >= 1
    /\ \/ st.resps[1] = Lost
       \/ st.primed # Nothing /\ st.primed[1] \notin 200..299

\* C12: whenever the priming call does not complete (network failure or
\* non-success status), Cagr::new fails with an error that is the session's
\* outcome, and the session issues no probe and no page request.
C12_PrimingMustComplete ==
    \A s \in Sessions :
        PrimingIncomplete(sess[s]) =>
            /\ sess[s].pc = "failed"
            /\ sess[s].reqs = <<PrimeRequest>>
            /\ \E i \in OutcomesOf(results, s) : ~results[i].ok

\* main is over, and not by a failure to create or write a file
MainOver == returned # Nothing /\ main.exit \in {"ok", "err"}

\* C13: of the list scrape_last_n_terms returned, main persists every
\* successful tuple whose class list is not empty, in the file named by its
\* (campus, term), wherever the error outcomes are in the list; a successful
\* tuple with an empty class list gets no file and is no failure.
C13_PersistsEverySuccess ==
    MainOver =>
        /\ \A i \in 1..Len(returned[1]) :
              LET d == returned[1][i]
                  name == FileName(d.campus, d.term)
              IN  d.ok =>
                     IF d.classes # <<>>
                     THEN [name |-> name, contents |-> Some(d.classes)] \in main.files
                     ELSE \A f \in main.files : f.name # name
        /\ main.exit = "err" => \E i \in 1..Len(returned[1]) : ~returned[1][i].ok

\* a page whose table has a row with fewer cells than the row parser reads
OffSchema(doc) ==
    doc.table /\ \E i \in 1..Len(doc.rows) : Len(RowCells(doc.rows[i])) < RowWidth

\* C14: every failure inside a session, a row off the cell schema included,
\* becomes that session's Err outcome; scrape_last_n_terms is never aborted,
\* and once it is over every session has delivered its outcome.
C14_FailuresStayInSession ==
    /\ \A s \in Sessions :
          (\E i \in 1..Len(sess[s].bodies) : OffSchema(sess[s].bodies[i])) =>
              /\ sess[s].pc = "failed"
              /\ \E i \in OutcomesOf(results, s) : ~results[i].ok
    /\ phase # "panicked" \/ discovered = Nothing
    /\ (Over /\ discovered # Nothing) =>
          /\ returned # Nothing
          /\ \A s \in Sessions : OutcomesOf(returned[1], s) # {}

\* the steps of the time-slot parser in the order of the claim, each with the
\* error it fails with on this line (None when it does not fail), read off
\* the way the line was put together
StepErrors(input) ==
    << IF input.slash THEN None ELSE "InvalidTime",
       IF input.dot THEN None ELSE "InvalidTime",
       IF ~(input.code.int /\ input.code.fits) THEN "ParseIntError"
       ELSE IF input.code.val \notin 1..7 THEN "InvalidTime" ELSE None,
       IF input.dash THEN None ELSE "InvalidTime",
       IF Trim(input.credits) = <<"x">> THEN "ParseIntError" ELSE None,
       IF input.clock = <<"2", "4", "6", "0">> THEN "ParseError" ELSE None >>

\* the error of the earliest step that fails, None when none does
EarliestError(errors) ==
    LET failing == { i \in 1..Len(errors) : errors[i] # None } IN
    IF failing = {} THEN None
    ELSE errors[CHOOSE i \in failing : \A j \in failing : i <= j]

TimeParsed == call.fn = "Time::from_str" /\ call.out # Nothing

\* C15 as stated: the error is that of the earliest failing step, and a line
\* missing any of the three delimiters fails with InvalidTime.
C15_MissingDelimiterInvalidTime ==
    TimeParsed =>
        LET input == call.arg
            out == call.out[1]
        IN  /\ out.err = EarliestError(StepErrors(input))
            /\ ~input.delimited => ~out.ok /\ out.err = "InvalidTime"

\* C15, amended: the steps run in the order " / ", ".", weekday code, "-",
\* credit-span, clock time, and the result is the error of the earliest step
\* that fails, or a slot when none does; so a line without " / " or without
\* "." fails with InvalidTime, and a line without "-" fails with InvalidTime
\* unless its weekday code is no integer, which fails first with the integer
\* parser's error.
C15_EarliestFailingStep ==
    TimeParsed =>
        LET input == call.arg
            out == call.out[1]
        IN  /\ out.err = EarliestError(StepErrors(input))
            /\ out.ok <=> EarliestError(StepErrors(input)) = None
            /\ (~input.slash \/ ~input.dot) => out.err = "InvalidTime"
            /\ ~input.dash =>
                  /\ ~out.ok
                  /\ (input.code.int /\ input.code.fits) => out.err = "InvalidTime"

\* a line with a bad credit-span and a bad clock time failed on the
\* credit-span, the earlier step
C15_Witness ==
    /\ TimeParsed
    /\ call.arg.delimited
    /\ call.arg.code.val = 2
    /\ call.arg.credits = <<"x">>
    /\ call.arg.clock = <<"2", "4", "6", "0">>
    /\ call.out[1].err = "ParseIntError"

\* C16: the professors of a parsed row are the lines of the professors cell
\* without the blank ones: no professor is the empty string, and an empty
\* cell gives no professor.
C16_NoBlankProfessor ==
    (call.fn = "Class::from_html" /\ call.out # Nothing /\ call.out[1].kind = "ok") =>
        LET professors == call.out[1].class.professors IN
        /\ \A i \in 1..Len(professors) : professors[i] # <<>>
        /\ call.arg.professors = <<>> => professors = <<>>

\* the variants of enum Campus in declaration order: `campus as u32` is the
\* position, counted from 0
CampusOrder == <<"EAD", "FLO", "JOI", "CBS", "ARA", "BLN">>

\* the form of a request carries the pair (campus, term)
CarriesPair(request, campus, term) ==
    /\ request.form # Nothing
    /\ request.form[1].selectSemestre = term
    /\ CampusOrder[request.form[1].selectCampus + 1] = campus

\* the pair of session s stays what it was constructed with, and a
\* successful scrape returns it
PairIsKept(s) ==
    /\ sess[s].campus = tasks[s][1]
    /\ sess[s].term = tasks[s][2]
    /\ \A i \in OutcomesOf(results, s) :
          results[i].ok =>
              results[i].campus = tasks[s][1] /\ results[i].term = tasks[s][2]

\* C17 as stated: the pair of a session never changes, every request of the
\* session, the priming call included, carries the pair in its form data,
\* and a successful scrape returns the pair.
C17_EveryRequestCarriesPair ==
    \A s \in Sessions :
        /\ PairIsKept(s)
        /\ \A i \in 1..Len(sess[s].reqs) :
              CarriesPair(sess[s].reqs[i], tasks[s][1], tasks[s][2])

\* C17, amended: the pair of a session never changes, the probe and every
\* page request carry the pair in their form data, the priming call carries
\* no form data at all, and a successful scrape returns the pair.
C17_PairIsBound ==
    \A s \in Sessions :
        /\ PairIsKept(s)
        /\ \A i \in 1..Len(sess[s].reqs) :
              IF sess[s].reqs[i].kind = "prime"
              THEN sess[s].reqs[i].form = Nothing
              ELSE CarriesPair(sess[s].reqs[i], tasks[s][1], tasks[s][2])

\* two sessions of different campuses, the second done after a probe and a
\* page request with its own pair, and its tuple collected
C17_Witness ==
    /\ Len(tasks) = 2
    /\ tasks[1][1] # tasks[2][1]
    /\ sess[2].pc = "done"
    /\ Len(sess[2].reqs) = 3
    /\ sess[2].reqs[3].kind = "page"
    /\ \E i \in OutcomesOf(results, 2) : results[i].ok /\ results[i].campus = tasks[2][1]

\* scrape run by itself on the responses session s got, from page i on: the
\* outcome it ends with
RECURSIVE PagesAlone(_, _, _, _, _)
PagesAlone(s, pages, i, previous, entries) ==
    IF i > pages THEN OkOutcome(s, tasks[s][1], tasks[s][2], entries)
    ELSE IF sess[s].resps[2 + i] = Lost THEN ErrOutcome(s, "Http")
    ELSE LET body == sess[s].bodies[i]
             parsed == classes_from_html(body)
         IN  IF previous = Some(body)
             THEN OkOutcome(s, tasks[s][1], tasks[s][2], entries)
             ELSE CASE parsed.kind = "panic" -> [task |-> s, panic |-> TRUE]
                    [] parsed.kind = "err" -> ErrOutcome(s, parsed.err)
                    [] OTHER -> PagesAlone(s, pages, i + 1, Some(body),
                                           entries \o parsed.classes)

\* Cagr::new(..).and_then(Cagr::scrape) run by itself on the responses
\* session s got
RunAlone(s) ==
    IF sess[s].reqs = <<>> THEN ErrOutcome(s, "Build")
    ELSE IF sess[s].resps[1] = Lost \/ sess[s].resps[2] = Lost THEN ErrOutcome(s, "Http")
    ELSE PagesAlone(s, page_count(sess[s].count[1]), 1, Nothing, <<>>)

\* C18: sessions share no mutable state: the cookie store of a session holds
\* only cookies set in answer to its own requests and its requests carry only
\* those; the outcome of a session is what it would be had the session run
\* alone on the same responses; and whatever the interleaving, once the run
\* is over every session has come to that outcome (a class list or an
\* error), unless its own run is the one that broke off.
C18_OutcomeAsIfAlone ==
    /\ \A s \in Sessions :
          /\ \A c \in sess[s].jar : c.to = s
          /\ \A i \in 1..Len(sess[s].cookies) : \A c \in sess[s].cookies[i] : c.to = s
          /\ \A i \in OutcomesOf(results, s) : results[i] = RunAlone(s)
    /\ (Over /\ discovered # Nothing) =>
          \A s \in Sessions : sess[s].pc # "panicked" => OutcomesOf(results, s) # {}

\* how many requests of a kind session s has sent
CountKind(s, kind) ==
    Cardinality({ i \in 1..Len(sess[s].reqs) : sess[s].reqs[i].kind = kind })

\* the page count the probe of session s gave, 0 before there is one
PagesKnown(s) == IF sess[s].pages = Nothing THEN 0 ELSE sess[s].pages[1]

\* C19: a session sends one priming request before anything else and no
\* second one, at most one probe, at most page_count page requests, none of
\* them for an index past the page count, and none after it ended; and when
\* nothing is left to run every session has ended, in Done or in an error
\* outcome.
C19_SessionsTerminate ==
    /\ \A s \in Sessions :
          /\ sess[s].reqs # <<>> =>
                sess[s].reqs[1].kind = "prime" /\ CountKind(s, "prime") = 1
          /\ CountKind(s, "probe") <= 1
          /\ CountKind(s, "page") <= PagesKnown(s)
          /\ \A i \in 1..Len(sess[s].reqs) :
                sess[s].reqs[i].kind = "page" =>
                    sess[s].reqs[i].form[1].dataScroller1 \in 1..PagesKnown(s)
          /\ Finished(s) => Len(sess[s].reqs) = Len(sess[s].resps)
    /\ (Over /\ discovered # Nothing) => \A s \in Sessions : Finished(s)

====
